---- MODULE Spec2Model ----
(***************************************************************************)
(* Model of the block download task (bufferedread.DownloadTask.Execute)    *)
(* and of the stale temporary object reaper (gcsx.garbageCollectOnce and   *)
(* gcsx.garbageCollect) of gcsfuse.                                        *)
(***************************************************************************)
EXTENDS Integers, Naturals, Sequences, FiniteSets, TLC

(***************************************************************************)
(* Bounds of the model.                                                    *)
(***************************************************************************)
MaxSize == 4
MaxCap == 3

\* Largest start offset of a block, beyond the largest object.
MaxStart == 6

\* Largest number of workers of a pool and of tasks submitted to it.
MaxWorkers == 2
MaxTasks == 4

\* Width, in bits, of the scaled-down machine word standing for uint64/int64.
WordBits == 5

VARIABLES
  \* ---- DownloadTask.Execute ----
  dtPC,          \* position of Execute
  startOff,      \* dt.block.AbsStartOff()
  blockCap,      \* dt.block.Cap()
  objectSize,    \* dt.object.Size
  hasUpdater,    \* dt.readHandleUpdater != nil
  exposesHandle, \* TRUE when the bucket's readers carry a read handle
  dtCtx,         \* TRUE when dt.ctx is cancelled
  dtErr,         \* the local variable err of Execute
  reqRange,      \* the gcs.ByteRange passed to the bucket, <<>> before the open
  copyN,         \* the count handed to io.CopyN
  written,       \* bytes written to the block
  openCalls,     \* calls of bucket.NewReaderWithReadHandle
  readerState,   \* "none", "open", "closed"
  closeCalls,    \* calls of newReader.Close
  notifications, \* sequence of block.BlockStatus passed to NotifyReady
  status,        \* the local variable status of the deferred function
  latencyObs,    \* sequence of labels passed to BufferedReadDownloadBlockLatency
  blockCounts,   \* sequence of labels passed to BufferedReadScheduledBlockCount
  updaterCalls,  \* calls of dt.readHandleUpdater
  updaterArgs,   \* sequence of the handles passed to dt.readHandleUpdater
  dtTrace,       \* sequence of the events open, write, close, notify
  openResult,    \* history: "pending", "ok" or the cause of the failed open
  cancelPhase    \* history: dtPC when dt.ctx was cancelled, "" if it was not

dtVars == <<dtPC, startOff, blockCap, objectSize, hasUpdater, exposesHandle,
           dtCtx, dtErr, reqRange, copyN, written, openCalls, readerState,
           closeCalls, notifications, status, latencyObs, blockCounts,
           updaterCalls, updaterArgs, dtTrace, openResult, cancelPhase>>

VARIABLES
  \* ---- garbageCollect and garbageCollectOnce ----
  now,             \* the wall clock, in minutes
  updated,         \* Updated of every object name
  bucket,          \* names of the objects under the temporary prefix
  tickPending,     \* a tick waits in ticker.C
  ownerCtx,        \* TRUE when the context given to garbageCollect is cancelled
  loopPC,          \* position of garbageCollect: "select", "run", "returned"
  lastRun,         \* history: result of the last finished run
  createdSince,    \* an object was created since the last run ended
  runNow,          \* the local variable now of garbageCollectOnce
  groupCtx,        \* TRUE when the context of the errgroup is cancelled
  groupErr,        \* the first error recorded by the errgroup
  objectsDeleted,  \* the named result objectsDeleted
  minObjects,      \* buffer of the channel minObjects
  minClosed,       \* the channel minObjects is closed
  staleNames,      \* buffer of the channel staleNames
  staleClosed,     \* the channel staleNames is closed
  listPC,          \* list stage: "fetch", "emit", "exit", "done"
  listPage,        \* objects of the current listing not yet emitted
  listMore,        \* the current listing carries a continuation token
  listToken,       \* last name of the current listing
  listErr,         \* error returned by the list stage
  filterPC,        \* filter stage: "recv", "select", "exit", "done"
  filterObj,       \* the loop variable o of the filter stage
  filterErr,       \* error returned by the filter stage
  deletePC,        \* delete stage: "recv", "delete", "exit", "done"
  deleteName,      \* the loop variable name of the delete stage
  deleteErr,       \* error returned by the delete stage
  bucketAtStart,   \* history: the bucket when the run started
  emitted,         \* history: names the list stage sent in this run
  forwarded,       \* history: names the filter stage sent in this run
  deleteCalls,     \* history: the DeleteObject calls of this run
  closes,          \* history: close() calls on each channel in this run
  cancelledMidRun  \* history: the owner cancelled while stages were running

envVars == <<now, updated, tickPending, ownerCtx>>
loopVars == <<loopPC, lastRun, createdSince>>
groupVars == <<runNow, groupCtx, groupErr, bucketAtStart, cancelledMidRun>>
minChan == <<minObjects, minClosed>>
staleChan == <<staleNames, staleClosed>>
listVars == <<listPC, listPage, listMore, listToken, listErr>>
filterVars == <<filterPC, filterObj, filterErr>>
deleteVars == <<deletePC, deleteName, deleteErr>>
histVars == <<emitted, forwarded, deleteCalls, closes>>

gcVars == <<envVars, loopVars, groupVars, minChan, staleChan, listVars,
            filterVars, deleteVars, histVars, bucket, objectsDeleted>>

VARIABLES
  \* ---- the worker pool ----
  workerCount,   \* the fixed number of workers of the pool
  poolWorker,    \* worker -> the task it executes, 0 when it is idle
  poolPending,   \* the tasks submitted and not yet taken by a worker
  poolSubmitted, \* number of tasks the pool accepted
  poolRejected,  \* number of submissions refused after the shutdown
  poolFinished,  \* the tasks whose Execute returned or panicked
  poolShutdown,  \* TRUE once shutdown was called
  poolHighWater  \* history: the largest number of tasks executing at once

poolVars == <<workerCount, poolWorker, poolPending, poolSubmitted,
              poolRejected, poolFinished, poolShutdown, poolHighWater>>

vars == <<dtVars, gcVars, poolVars>>


(***************************************************************************)
(* Machine arithmetic.                                                     *)
(***************************************************************************)
UintMod == 2 ^ WordBits

\* uint64(x): conversion of a signed value to the unsigned word.
ToUint(x) == x % UintMod

\* int64(x): conversion of an unsigned word to the signed word.
ToInt(x) == IF x >= UintMod \div 2 THEN x - UintMod ELSE x

Min(a, b) == IF a < b THEN a ELSE b

(***************************************************************************)
(* Errors.  An error value is "nil" or a record naming the wrapper added   *)
(* by Execute and the cause returned by the bucket or the reader.          *)
(***************************************************************************)
NoErr == [wrap |-> "nil", cause |-> "nil"]

\* Causes the bucket's open can fail with.
OpenCauses == {"NotFound", "Canceled", "Other"}

\* Causes a read of the reader can fail with; "EOF" is a stream that ends
\* before the requested count was delivered.
CopyCauses == {"EOF", "NotFound", "Canceled", "Other"}

\* errors.As(err, &notFoundError)
IsNotFound(cause) == cause = "NotFound"

\* errors.Is(err, context.Canceled): fmt.Errorf("%w") keeps the chain, and
\* the clobbered error only ever wraps a not-found error.
IsCanceledErr(err) == err.cause = "Canceled"

\* Variant: the not-found test is missing.
OpenError_AlwaysGeneric(cause) ==
  [wrap |-> "while reader-creations", cause |-> cause]

\* The error Execute stores after a failed open.
OpenError(cause) ==
  IF IsNotFound(cause)
    THEN [wrap |-> "FileClobberedError", cause |-> cause]
    ELSE [wrap |-> "while reader-creations", cause |-> cause]

\* The error Execute stores after a failed copy.
CopyError(cause) == [wrap |-> "while data-copy", cause |-> cause]

(***************************************************************************)
(* The byte range of the block.                                            *)
(***************************************************************************)
RangeStart(off) == ToUint(off)

RangeEnd(off, cap, size) ==
  LET start == ToUint(off)
      end == (start + ToUint(cap)) % UintMod
  IN IF end > size THEN size ELSE end

\* Variant: the limit is taken as inclusive.
CopyCount_OffByOne(off, cap, size) ==
  ToInt((RangeEnd(off, cap, size) - RangeStart(off)) % UintMod) - 1

\* int64(end-start)
CopyCount(off, cap, size) ==
  ToInt((RangeEnd(off, cap, size) - RangeStart(off)) % UintMod)

(***************************************************************************)
(* The deferred function of Execute.                                       *)
(***************************************************************************)
\* Variant: the cancelled branch leaves the label of a success.
StatusLabel_CancelledAsSuccessful(err, ctxCancelled) ==
  IF err = NoErr \/ (IsCanceledErr(err) /\ ctxCancelled) THEN "successful"
  ELSE "failed"

\* Variant: the context of the task is not looked at.
StatusLabel_IgnoreCtx(err, ctxCancelled) ==
  IF err = NoErr THEN "successful"
  ELSE IF IsCanceledErr(err) THEN "cancelled"
  ELSE "failed"

\* Variant: cancellation is not told apart from failure.
StatusLabel_NoCancelled(err, ctxCancelled) ==
  IF err = NoErr THEN "successful" ELSE "failed"

StatusLabel(err, ctxCancelled) ==
  IF err = NoErr THEN "successful"
  ELSE IF IsCanceledErr(err) /\ ctxCancelled THEN "cancelled"
  ELSE "failed"

BlockStatus(err) ==
  IF err = NoErr
    THEN [State |-> "Downloaded", Err |-> NoErr]
    ELSE [State |-> "DownloadFailed", Err |-> err]

\* Variant: the cancelled branch also runs the failed branch.
DeferredNotifications_Twice(err, ctxCancelled) ==
  IF err # NoErr /\ IsCanceledErr(err) /\ ctxCancelled
    THEN <<BlockStatus(err), BlockStatus(err)>>
    ELSE <<BlockStatus(err)>>

\* Variant: the cancelled branch does not notify.
DeferredNotifications_SkipCancelled(err, ctxCancelled) ==
  IF err # NoErr /\ IsCanceledErr(err) /\ ctxCancelled
    THEN <<>>
    ELSE <<BlockStatus(err)>>

\* The NotifyReady calls of the deferred function: one in each branch.
DeferredNotifications(err, ctxCancelled) == <<BlockStatus(err)>>

\* Variant: the updater is called only with a handle.
AfterCopy_NeedsHandle(updater, handle) ==
  IF updater /\ handle THEN "update" ELSE "close"

\* if dt.readHandleUpdater != nil: the handle the reader returns is not
\* looked at.
AfterCopy(updater, handle) == IF updater THEN "update" ELSE "close"

\* newReader.ReadHandle(): the handle of the reader, nil when the bucket
\* exposes none.
ReadHandle(exposed) == IF exposed THEN "handle" ELSE "nil"

\* Variant: a failed open is tried again.
AfterOpenError_Retry == "start"

\* Variant: the deferred Close is registered before the error is tested.
AfterOpenError_Close == "close"

\* A failed open: Execute returns, and only the deferred function runs.
AfterOpenError == "notify"

\* Variant: the copy runs in a goroutine Execute does not wait for.
Copying_Detached(pc) == pc \in {"copy", "notify", "metrics"}

\* io.CopyN is a call of Execute between the open and the return.
Copying(pc) == pc = "copy"

\* Bytes the reader of a ranged open delivers before it ends: the part of
\* the requested range that lies inside the object.
StreamLen(range, size) ==
  IF Min(range[2], size) > range[1] THEN Min(range[2], size) - range[1] ELSE 0

(***************************************************************************)
(* DownloadTask.Execute, one action per step.                              *)
(***************************************************************************)
\* NewDownloadTask for a block at any offset.
TaskCreatedAnywhere ==
  /\ dtPC = "start"
  /\ objectSize \in 0..MaxSize
  /\ blockCap \in 1..MaxCap
  /\ startOff \in 0..MaxStart
  /\ hasUpdater \in BOOLEAN
  /\ exposesHandle \in BOOLEAN
  /\ dtCtx = FALSE
  /\ dtErr = NoErr
  /\ reqRange = <<>>
  /\ copyN = 0
  /\ written = 0
  /\ openCalls = 0
  /\ readerState = "none"
  /\ closeCalls = 0
  /\ notifications = <<>>
  /\ status = ""
  /\ latencyObs = <<>>
  /\ blockCounts = <<>>
  /\ updaterCalls = 0
  /\ updaterArgs = <<>>
  /\ dtTrace = <<>>
  /\ openResult = "pending"
  /\ cancelPhase = ""

\* NewDownloadTask for a block of the object: its start offset lies within
\* the object.
TaskCreated ==
  /\ TaskCreatedAnywhere
  /\ startOff \in 0..objectSize

\* The owner of dt.ctx cancels it.
CancelTask ==
  /\ dtPC # "done"
  /\ ~dtCtx
  /\ dtCtx' = TRUE
  /\ cancelPhase' = dtPC
  /\ UNCHANGED <<gcVars, poolVars, dtPC, startOff, blockCap, objectSize,
                 hasUpdater, exposesHandle, dtErr, reqRange, copyN, written,
                 openCalls, readerState, closeCalls, notifications, status,
                 latencyObs, blockCounts, updaterCalls, updaterArgs, dtTrace,
                 openResult>>

\* bucket.NewReaderWithReadHandle returns a reader.
OpenOk ==
  /\ dtPC = "start"
  /\ reqRange' = <<RangeStart(startOff), RangeEnd(startOff, blockCap, objectSize)>>
  /\ copyN' = CopyCount(startOff, blockCap, objectSize)
  /\ openCalls' = openCalls + 1
  /\ readerState' = "open"
  /\ openResult' = "ok"
  /\ dtTrace' = Append(dtTrace, "open")
  /\ dtPC' = "copy"
  /\ UNCHANGED <<gcVars, poolVars, startOff, blockCap, objectSize,
                 hasUpdater, exposesHandle, dtCtx, dtErr, written,
                 closeCalls, notifications, status, latencyObs, blockCounts,
                 updaterCalls, updaterArgs, cancelPhase>>

\* bucket.NewReaderWithReadHandle returns an error.
OpenFail ==
  /\ dtPC = "start"
  /\ \E cause \in OpenCauses :
       /\ dtErr' = OpenError(cause)
       /\ openResult' = cause
  /\ reqRange' = <<RangeStart(startOff), RangeEnd(startOff, blockCap, objectSize)>>
  /\ openCalls' = openCalls + 1
  /\ dtTrace' = Append(dtTrace, "openfail")
  /\ dtPC' = AfterOpenError
  /\ UNCHANGED <<gcVars, poolVars, startOff, blockCap, objectSize,
                 hasUpdater, exposesHandle, dtCtx, copyN, written,
                 readerState, closeCalls, notifications, status, latencyObs,
                 blockCounts, updaterCalls, updaterArgs, cancelPhase>>

\* io.CopyN moves one more byte of the stream into the block.
CopyByte ==
  /\ Copying(dtPC)
  /\ written < copyN
  /\ written < StreamLen(reqRange, objectSize)
  /\ written' = written + 1
  /\ dtTrace' = Append(dtTrace, "write")
  /\ UNCHANGED <<gcVars, poolVars, dtPC, startOff, blockCap, objectSize,
                 hasUpdater, exposesHandle, dtCtx, dtErr, reqRange, copyN,
                 openCalls, readerState, closeCalls, notifications, status,
                 latencyObs, blockCounts, updaterCalls, updaterArgs,
                 openResult, cancelPhase>>

\* io.CopyN returns nil: the count was delivered (or was not positive).
CopyDone ==
  /\ dtPC = "copy"
  /\ written >= copyN
  /\ dtPC' = AfterCopy(hasUpdater, exposesHandle)
  /\ UNCHANGED <<gcVars, poolVars, startOff, blockCap, objectSize,
                 hasUpdater, exposesHandle, dtCtx, dtErr, reqRange, copyN,
                 written, openCalls, readerState, closeCalls, notifications,
                 status, latencyObs, blockCounts, updaterCalls, updaterArgs,
                 dtTrace, openResult, cancelPhase>>

\* io.CopyN returns an error before the count was delivered.
CopyFail ==
  /\ dtPC = "copy"
  /\ written < copyN
  /\ \E cause \in CopyCauses :
       dtErr' = CopyError(cause)
  /\ dtPC' = "close"
  /\ UNCHANGED <<gcVars, poolVars, startOff, blockCap, objectSize,
                 hasUpdater, exposesHandle, dtCtx, reqRange, copyN, written,
                 openCalls, readerState, closeCalls, notifications, status,
                 latencyObs, blockCounts, updaterCalls, updaterArgs, dtTrace,
                 openResult, cancelPhase>>

\* dt.readHandleUpdater(newReader.ReadHandle())
UpdateReadHandle ==
  /\ dtPC = "update"
  /\ updaterCalls' = updaterCalls + 1
  /\ updaterArgs' = Append(updaterArgs, ReadHandle(exposesHandle))
  /\ dtPC' = "close"
  /\ UNCHANGED <<gcVars, poolVars, startOff, blockCap, objectSize,
                 hasUpdater, exposesHandle, dtCtx, dtErr, reqRange, copyN,
                 written, openCalls, readerState, closeCalls, notifications,
                 status, latencyObs, blockCounts, dtTrace, openResult,
                 cancelPhase>>

\* defer newReader.Close()
CloseReader ==
  /\ dtPC = "close"
  /\ readerState' = "closed"
  /\ closeCalls' = closeCalls + 1
  /\ dtTrace' = Append(dtTrace, "close")
  /\ dtPC' = "notify"
  /\ UNCHANGED <<gcVars, poolVars, startOff, blockCap, objectSize,
                 hasUpdater, exposesHandle, dtCtx, dtErr, reqRange, copyN,
                 written, openCalls, notifications, status, latencyObs,
                 blockCounts, updaterCalls, updaterArgs, openResult,
                 cancelPhase>>

\* The deferred function: dt.block.NotifyReady(...)
NotifyBlock ==
  /\ dtPC = "notify"
  /\ status' = StatusLabel(dtErr, dtCtx)
  /\ notifications' = notifications \o DeferredNotifications(dtErr, dtCtx)
  /\ dtTrace' = Append(dtTrace, "notify")
  /\ dtPC' = "metrics"
  /\ UNCHANGED <<gcVars, poolVars, startOff, blockCap, objectSize,
                 hasUpdater, exposesHandle, dtCtx, dtErr, reqRange, copyN,
                 written, openCalls, readerState, closeCalls, latencyObs,
                 blockCounts, updaterCalls, updaterArgs, openResult,
                 cancelPhase>>

\* The deferred function: the two metrics calls.
RecordMetrics ==
  /\ dtPC = "metrics"
  /\ latencyObs' = Append(latencyObs, status)
  /\ blockCounts' = Append(blockCounts, status)
  /\ dtPC' = "done"
  /\ UNCHANGED <<gcVars, poolVars, startOff, blockCap, objectSize,
                 hasUpdater, exposesHandle, dtCtx, dtErr, reqRange, copyN,
                 written, openCalls, readerState, closeCalls, notifications,
                 status, updaterCalls, updaterArgs, dtTrace, openResult,
                 cancelPhase>>

TaskStep ==
  \/ OpenOk
  \/ OpenFail
  \/ CopyByte
  \/ CopyDone
  \/ CopyFail
  \/ UpdateReadHandle
  \/ CloseReader
  \/ NotifyBlock
  \/ RecordMetrics

NextDownload ==
  \/ CancelTask
  \/ TaskStep

(***************************************************************************)
(* The stale temporary object reaper.                                      *)
(***************************************************************************)
\* Bounds of the reaper model.
MaxObjects == 4
MaxTicks == 2
PageSize == 2

\* Capacity of the two inter-stage channels, scaled down from the 100 of the
\* code so that a full channel is reached with MaxObjects objects.
ChanCap == 1

\* Minutes.
stalenessThreshold == 30
period == 10

Names == 1..MaxObjects

\* Last-updated times the objects start with; the first run can happen at
\* time period, where they give the ages 120, 31, 30, 5 and 25 minutes.
UpdatedTimes == <<-110, -21, -20, 5, -15>>

\* The initial assignments of last-updated times to the names: the times
\* above in listing order, starting from any of them.
UpdatedProfiles ==
  {[o \in Names |-> UpdatedTimes[((o + k) % Len(UpdatedTimes)) + 1]] :
     k \in 1..Len(UpdatedTimes)}

Nil == "nil"

\* No run has finished yet.
NoRun == [count |-> 0, err |-> "none", left |-> {}]

RECURSIVE SortedSeq(_)
\* The names of S in the order a listing returns them.
SortedSeq(S) ==
  IF S = {} THEN <<>>
  ELSE LET m == CHOOSE x \in S : \A y \in S : x <= y
       IN <<m>> \o SortedSeq(S \ {m})

Range(s) == {s[i] : i \in 1..Len(s)}

\* now.Sub(o.Updated)
Age(o) == runNow - updated[o]

\* Variant: an object exactly as old as the threshold is skipped too.
IsFresh_Inclusive(age) == age <= stalenessThreshold

\* Variant: no object is skipped.
IsFresh_Never(age) == FALSE

\* Variant: the test inverted.
IsFresh_Negated(age) == age >= stalenessThreshold

\* Variant: a threshold of half the length.
IsFresh_HalfThreshold(age) == age < stalenessThreshold \div 2

\* The test of the filter stage that skips an object.
IsFresh(age) == age < stalenessThreshold

\* Variant: a group that keeps the error recorded last.
FirstErr_Last(old, err) == IF err # Nil THEN err ELSE old

\* errgroup: the first non-nil error returned by a stage is kept.
FirstErr(old, err) == IF old = Nil THEN err ELSE old

\* Variant: a group without a context, which a failing stage leaves alone.
CancelledBy_Never(ctx, err) == ctx

\* errgroup: a stage returning a non-nil error cancels the shared context.
CancelledBy(ctx, err) == ctx \/ err # Nil

\* Variant: a group built on the background context.
DerivedCtx_Background(parent) == FALSE

\* errgroup.WithContext(ctx): the context of the group is cancelled when
\* the context of the caller is.
DerivedCtx(parent) == parent

\* Variant: a run is started from the ticker without waiting for the one
\* in progress.
LoopAtSelect_Async(pc) == pc \in {"select", "run"}

\* The loop is at its select: garbageCollectOnce is called in the loop and
\* has returned.
LoopAtSelect(pc) == pc = "select"

\* Variant: a failed delete is skipped and the stage goes on.
AfterDeleteError_Continue == "recv"

\* A failed delete: the delete stage returns.
AfterDeleteError == "exit"

\* Variant: a stage without the deferred close.
DeferClose_Missing(cl, ch) == cl

\* defer close(ch) of a producing stage, counted.
DeferClose(cl, ch) == [cl EXCEPT ![ch] = @ + 1]

\* Variant: a plain send in place of the select.
FilterDoneReady_Never(ctx) == FALSE

\* case <-ctx.Done() of the filter stage's select is ready.
FilterDoneReady(ctx) == ctx

\* Variant: the select returns without assigning err.
CtxErr_Unassigned(ctx) == Nil

\* err = ctx.Err() of the filter stage.
CtxErr(ctx) == IF ctx THEN "context canceled" ELSE Nil

\* Variant: a loop that returns when a run fails.
LoopAfterRun_StopOnError(err) == IF err # Nil THEN "returned" ELSE "select"

\* The loop logs the result of a run, an error included, and goes back to
\* its select.
LoopAfterRun(err) == "select"

\* Variant: a channel without a bound.
CanSend_Unbounded(buf) == TRUE

\* A send on a buffered channel can proceed.
CanSend(buf) == Len(buf) < ChanCap

\* Variant: the run returns without waiting for the filter and delete
\* stages.
StagesDone_ListOnly == listPC = "done"

\* group.Wait() has returned: the three stages have.
StagesDone == listPC = "done" /\ filterPC = "done" /\ deletePC = "done"

ReaperCreated ==
  /\ now = 0
  /\ updated \in UpdatedProfiles
  /\ bucket = Names
  /\ tickPending = FALSE
  /\ ownerCtx = FALSE
  /\ loopPC = "select"
  /\ lastRun = NoRun
  /\ createdSince = FALSE
  /\ runNow = 0
  /\ groupCtx = FALSE
  /\ groupErr = Nil
  /\ objectsDeleted = 0
  /\ minObjects = <<>>
  /\ minClosed = FALSE
  /\ staleNames = <<>>
  /\ staleClosed = FALSE
  /\ listPC = "done"
  /\ listPage = <<>>
  /\ listMore = FALSE
  /\ listToken = 0
  /\ listErr = Nil
  /\ filterPC = "done"
  /\ filterObj = 0
  /\ filterErr = Nil
  /\ deletePC = "done"
  /\ deleteName = 0
  /\ deleteErr = Nil
  /\ bucketAtStart = {}
  /\ emitted = {}
  /\ forwarded = {}
  /\ deleteCalls = <<>>
  /\ closes = [c \in {"minObjects", "staleNames"} |-> 0]
  /\ cancelledMidRun = FALSE

(***************************************************************************)
(* The environment of the reaper.                                          *)
(***************************************************************************)
\* The ticker fires: one period has passed.  ticker.C holds one tick.
Tick ==
  /\ loopPC # "returned"
  /\ now + period <= MaxTicks * period
  /\ now' = now + period
  /\ tickPending' = TRUE
  /\ UNCHANGED <<updated, ownerCtx, loopVars, groupVars, minChan, staleChan,
                 listVars, filterVars, deleteVars, histVars, bucket,
                 objectsDeleted, dtVars, poolVars>>

\* The owner cancels the context given to garbageCollect; the context of a
\* running errgroup is derived from it.
CancelOwner ==
  /\ loopPC # "returned"
  /\ ~ownerCtx
  /\ ownerCtx' = TRUE
  /\ groupCtx' = (groupCtx \/ loopPC = "run")
  /\ cancelledMidRun' = (cancelledMidRun \/ (loopPC = "run" /\ ~StagesDone))
  /\ UNCHANGED <<now, updated, tickPending, loopVars, runNow, groupErr,
                 bucketAtStart, minChan, staleChan, listVars, filterVars,
                 deleteVars, histVars, bucket, objectsDeleted, dtVars,
                 poolVars>>

\* A writer creates a temporary object between two runs.
CreateObject ==
  /\ loopPC = "select"
  /\ \E o \in Names \ bucket :
       /\ bucket' = bucket \cup {o}
       /\ updated' = [updated EXCEPT ![o] = now]
  /\ createdSince' = TRUE
  /\ UNCHANGED <<now, tickPending, ownerCtx, loopPC, lastRun, groupVars,
                 minChan, staleChan, listVars, filterVars, deleteVars,
                 histVars, objectsDeleted, dtVars, poolVars>>

(***************************************************************************)
(* garbageCollect: the periodic loop.                                      *)
(***************************************************************************)
\* select takes <-ctx.Done(): return.
LoopReturn ==
  /\ LoopAtSelect(loopPC)
  /\ ownerCtx
  /\ loopPC' = "returned"
  /\ UNCHANGED <<envVars, lastRun, createdSince, groupVars, minChan,
                 staleChan, listVars, filterVars, deleteVars, histVars,
                 bucket, objectsDeleted, dtVars, poolVars>>

\* select takes <-ticker.C: garbageCollectOnce is called; it creates the
\* errgroup and the channels and starts the three stages.
LoopStartRun ==
  /\ LoopAtSelect(loopPC)
  /\ tickPending
  /\ tickPending' = FALSE
  /\ loopPC' = "run"
  /\ runNow' = now
  /\ groupCtx' = DerivedCtx(ownerCtx)
  /\ groupErr' = Nil
  /\ objectsDeleted' = 0
  /\ minObjects' = <<>>
  /\ minClosed' = FALSE
  /\ staleNames' = <<>>
  /\ staleClosed' = FALSE
  /\ listPC' = "fetch"
  /\ listPage' = <<>>
  /\ listMore' = FALSE
  /\ listToken' = 0
  /\ listErr' = Nil
  /\ filterPC' = "recv"
  /\ filterObj' = 0
  /\ filterErr' = Nil
  /\ deletePC' = "recv"
  /\ deleteName' = 0
  /\ deleteErr' = Nil
  /\ bucketAtStart' = bucket
  /\ emitted' = {}
  /\ forwarded' = {}
  /\ deleteCalls' = <<>>
  /\ closes' = [c \in {"minObjects", "staleNames"} |-> 0]
  /\ cancelledMidRun' = FALSE
  /\ UNCHANGED <<now, updated, ownerCtx, lastRun, createdSince, bucket,
                 dtVars, poolVars>>

\* group.Wait() has collected the three stages: garbageCollectOnce is about
\* to return objectsDeleted and the first error.
RunFinished == loopPC = "run" /\ StagesDone

\* garbageCollectOnce returns and the loop logs the result; the channels,
\* the group and the locals of the run are gone.
RunReturn ==
  /\ RunFinished
  /\ lastRun' = [count |-> objectsDeleted, err |-> groupErr, left |-> bucket]
  /\ createdSince' = FALSE
  /\ loopPC' = LoopAfterRun(groupErr)
  /\ runNow' = 0
  /\ groupCtx' = FALSE
  /\ groupErr' = Nil
  /\ objectsDeleted' = 0
  /\ minObjects' = <<>>
  /\ minClosed' = FALSE
  /\ staleNames' = <<>>
  /\ staleClosed' = FALSE
  /\ listPage' = <<>>
  /\ listMore' = FALSE
  /\ listToken' = 0
  /\ listErr' = Nil
  /\ filterObj' = 0
  /\ filterErr' = Nil
  /\ deleteName' = 0
  /\ deleteErr' = Nil
  /\ bucketAtStart' = {}
  /\ emitted' = {}
  /\ forwarded' = {}
  /\ deleteCalls' = <<>>
  /\ closes' = [c \in {"minObjects", "staleNames"} |-> 0]
  /\ cancelledMidRun' = FALSE
  /\ UNCHANGED <<envVars, listPC, filterPC, deletePC, bucket, dtVars,
                 poolVars>>

(***************************************************************************)
(* The list stage: storageutil.ListPrefix inside the first group.Go.       *)
(***************************************************************************)
\* bucket.ListObjects returns the next listing.
ListFetch ==
  /\ loopPC = "run"
  /\ listPC = "fetch"
  /\ LET rest == SortedSeq({o \in bucket : o > listToken})
         page == SubSeq(rest, 1, Min(PageSize, Len(rest)))
     IN /\ listPage' = page
        /\ listMore' = (Len(rest) > PageSize)
        /\ listToken' = IF page = <<>> THEN listToken ELSE page[Len(page)]
  /\ listPC' = "emit"
  /\ UNCHANGED <<envVars, loopVars, groupVars, minChan, staleChan, listErr,
                 filterVars, deleteVars, histVars, bucket, objectsDeleted,
                 dtVars, poolVars>>

\* bucket.ListObjects returns an error: the stage returns it, wrapped, and
\* its deferred close(minObjects) runs.
ListFetchFail ==
  /\ loopPC = "run"
  /\ listPC = "fetch"
  /\ listErr' = "ListPrefix: ListObjects"
  /\ minClosed' = TRUE
  /\ closes' = DeferClose(closes, "minObjects")
  /\ listPC' = "exit"
  /\ UNCHANGED <<envVars, loopVars, groupVars, minObjects, staleChan,
                 listPage, listMore, listToken, filterVars, deleteVars,
                 emitted, forwarded, deleteCalls, bucket, objectsDeleted,
                 dtVars, poolVars>>

\* select takes the send of the next object of the listing.
ListSend ==
  /\ loopPC = "run"
  /\ listPC = "emit"
  /\ listPage # <<>>
  /\ CanSend(minObjects)
  /\ minObjects' = Append(minObjects, Head(listPage))
  /\ emitted' = emitted \cup {Head(listPage)}
  /\ listPage' = Tail(listPage)
  /\ UNCHANGED <<envVars, loopVars, groupVars, minClosed, staleChan, listPC,
                 listMore, listToken, listErr, filterVars, deleteVars,
                 forwarded, deleteCalls, closes, bucket, objectsDeleted,
                 dtVars, poolVars>>

\* select takes <-ctx.Done(): the stage returns ctx.Err(), wrapped.
ListCancelled ==
  /\ loopPC = "run"
  /\ listPC = "emit"
  /\ listPage # <<>>
  /\ groupCtx
  /\ listErr' = "ListPrefix: context canceled"
  /\ minClosed' = TRUE
  /\ closes' = DeferClose(closes, "minObjects")
  /\ listPC' = "exit"
  /\ UNCHANGED <<envVars, loopVars, groupVars, minObjects, staleChan,
                 listPage, listMore, listToken, filterVars, deleteVars,
                 emitted, forwarded, deleteCalls, bucket, objectsDeleted,
                 dtVars, poolVars>>

\* The listing is emitted: fetch the next one, or return nil.
ListPageDone ==
  /\ loopPC = "run"
  /\ listPC = "emit"
  /\ listPage = <<>>
  /\ IF listMore
       THEN /\ listPC' = "fetch"
            /\ UNCHANGED <<minClosed, closes>>
       ELSE /\ listPC' = "exit"
            /\ minClosed' = TRUE
            /\ closes' = DeferClose(closes, "minObjects")
  /\ UNCHANGED <<envVars, loopVars, groupVars, minObjects, staleChan,
                 listPage, listMore, listToken, listErr, filterVars,
                 deleteVars, emitted, forwarded, deleteCalls, bucket,
                 objectsDeleted, dtVars, poolVars>>

\* errgroup records the result of the list stage.
ListExit ==
  /\ loopPC = "run"
  /\ listPC = "exit"
  /\ groupErr' = FirstErr(groupErr, listErr)
  /\ groupCtx' = CancelledBy(groupCtx, listErr)
  /\ listPC' = "done"
  /\ UNCHANGED <<envVars, loopVars, runNow, bucketAtStart, cancelledMidRun,
                 minChan, staleChan, listPage, listMore, listToken, listErr,
                 filterVars, deleteVars, histVars, bucket, objectsDeleted,
                 dtVars, poolVars>>

(***************************************************************************)
(* The filter stage: the second group.Go.                                  *)
(***************************************************************************)
\* for o := range minObjects receives an object; a fresh one is skipped.
FilterRecv ==
  /\ loopPC = "run"
  /\ filterPC = "recv"
  /\ minObjects # <<>>
  /\ minObjects' = Tail(minObjects)
  /\ filterObj' = Head(minObjects)
  /\ filterPC' = IF IsFresh(Age(Head(minObjects))) THEN "recv" ELSE "select"
  /\ UNCHANGED <<envVars, loopVars, groupVars, minClosed, staleChan,
                 listVars, filterErr, deleteVars, histVars, bucket,
                 objectsDeleted, dtVars, poolVars>>

\* The range loop ends on the closed and drained channel: return nil, and
\* the deferred close(staleNames) runs.
FilterEnd ==
  /\ loopPC = "run"
  /\ filterPC = "recv"
  /\ minObjects = <<>>
  /\ minClosed
  /\ filterErr' = Nil
  /\ staleClosed' = TRUE
  /\ closes' = DeferClose(closes, "staleNames")
  /\ filterPC' = "exit"
  /\ UNCHANGED <<envVars, loopVars, groupVars, minChan, staleNames, listVars,
                 filterObj, deleteVars, emitted, forwarded, deleteCalls,
                 bucket, objectsDeleted, dtVars, poolVars>>

\* select takes staleNames <- o.Name.
FilterSend ==
  /\ loopPC = "run"
  /\ filterPC = "select"
  /\ CanSend(staleNames)
  /\ staleNames' = Append(staleNames, filterObj)
  /\ forwarded' = forwarded \cup {filterObj}
  /\ filterPC' = "recv"
  /\ UNCHANGED <<envVars, loopVars, groupVars, minChan, staleClosed,
                 listVars, filterObj, filterErr, deleteVars, emitted,
                 deleteCalls, closes, bucket, objectsDeleted, dtVars,
                 poolVars>>

\* select takes <-ctx.Done(): return ctx.Err().
FilterCancelled ==
  /\ loopPC = "run"
  /\ filterPC = "select"
  /\ FilterDoneReady(groupCtx)
  /\ filterErr' = CtxErr(groupCtx)
  /\ staleClosed' = TRUE
  /\ closes' = DeferClose(closes, "staleNames")
  /\ filterPC' = "exit"
  /\ UNCHANGED <<envVars, loopVars, groupVars, minChan, staleNames, listVars,
                 filterObj, deleteVars, emitted, forwarded, deleteCalls,
                 bucket, objectsDeleted, dtVars, poolVars>>

\* errgroup records the result of the filter stage.
FilterExit ==
  /\ loopPC = "run"
  /\ filterPC = "exit"
  /\ groupErr' = FirstErr(groupErr, filterErr)
  /\ groupCtx' = CancelledBy(groupCtx, filterErr)
  /\ filterPC' = "done"
  /\ UNCHANGED <<envVars, loopVars, runNow, bucketAtStart, cancelledMidRun,
                 minChan, staleChan, listVars, filterObj, filterErr,
                 deleteVars, histVars, bucket, objectsDeleted, dtVars,
                 poolVars>>

(***************************************************************************)
(* The delete stage: the third group.Go.                                   *)
(***************************************************************************)
\* for name := range staleNames receives a name.
DeleteRecv ==
  /\ loopPC = "run"
  /\ deletePC = "recv"
  /\ staleNames # <<>>
  /\ staleNames' = Tail(staleNames)
  /\ deleteName' = Head(staleNames)
  /\ deletePC' = "delete"
  /\ UNCHANGED <<envVars, loopVars, groupVars, minChan, staleClosed,
                 listVars, filterVars, deleteErr, histVars, bucket,
                 objectsDeleted, dtVars, poolVars>>

\* The range loop ends on the closed and drained channel: return nil.
DeleteEnd ==
  /\ loopPC = "run"
  /\ deletePC = "recv"
  /\ staleNames = <<>>
  /\ staleClosed
  /\ deleteErr' = Nil
  /\ deletePC' = "exit"
  /\ UNCHANGED <<envVars, loopVars, groupVars, minChan, staleChan, listVars,
                 filterVars, deleteName, histVars, bucket, objectsDeleted,
                 dtVars, poolVars>>

\* bucket.DeleteObject succeeds: atomic.AddUint64(&objectsDeleted, 1).
DeleteOk ==
  /\ loopPC = "run"
  /\ deletePC = "delete"
  /\ deleteName \in bucket
  /\ bucket' = bucket \ {deleteName}
  /\ objectsDeleted' = objectsDeleted + 1
  /\ deleteCalls' = Append(deleteCalls, [name |-> deleteName, ok |-> TRUE])
  /\ deletePC' = "recv"
  /\ UNCHANGED <<envVars, loopVars, groupVars, minChan, staleChan, listVars,
                 filterVars, deleteName, deleteErr, emitted, forwarded,
                 closes, dtVars, poolVars>>

\* bucket.DeleteObject returns an error: the stage returns it, wrapped.
DeleteFail ==
  /\ loopPC = "run"
  /\ deletePC = "delete"
  /\ deleteCalls' = Append(deleteCalls, [name |-> deleteName, ok |-> FALSE])
  /\ deleteErr' = "DeleteObject"
  /\ deletePC' = AfterDeleteError
  /\ UNCHANGED <<envVars, loopVars, groupVars, minChan, staleChan, listVars,
                 filterVars, deleteName, emitted, forwarded, closes, bucket,
                 objectsDeleted, dtVars, poolVars>>

\* errgroup records the result of the delete stage.
DeleteExit ==
  /\ loopPC = "run"
  /\ deletePC = "exit"
  /\ groupErr' = FirstErr(groupErr, deleteErr)
  /\ groupCtx' = CancelledBy(groupCtx, deleteErr)
  /\ deletePC' = "done"
  /\ UNCHANGED <<envVars, loopVars, runNow, bucketAtStart, cancelledMidRun,
                 minChan, staleChan, listVars, filterVars, deleteName,
                 deleteErr, histVars, bucket, objectsDeleted, dtVars,
                 poolVars>>

(***************************************************************************)
(* The worker pool.                                                        *)
(***************************************************************************)
Max(a, b) == IF a > b THEN a ELSE b

\* Variant: the loop that starts the workers runs once too often.
Workers_OneExtra(count) == 1..(count + 1)

\* The workers the pool starts.
Workers(count) == 1..count

\* The workers that execute a task.
Running == {w \in DOMAIN poolWorker : poolWorker[w] # 0}

PoolCreated ==
  /\ workerCount \in 1..MaxWorkers
  /\ poolWorker = [w \in Workers(workerCount) |-> 0]
  /\ poolPending = {}
  /\ poolSubmitted = 0
  /\ poolRejected = 0
  /\ poolFinished = {}
  /\ poolShutdown = FALSE
  /\ poolHighWater = 0

\* submit(task): the task is enqueued.
Submit ==
  /\ ~poolShutdown
  /\ poolSubmitted < MaxTasks
  /\ poolSubmitted' = poolSubmitted + 1
  /\ poolPending' = poolPending \cup {poolSubmitted + 1}
  /\ UNCHANGED <<dtVars, gcVars, workerCount, poolWorker, poolRejected,
                 poolFinished, poolShutdown, poolHighWater>>

\* submit(task) on a pool that is shutting down: an error or a no-op.
SubmitRejected ==
  /\ poolShutdown
  /\ poolSubmitted + poolRejected < MaxTasks
  /\ poolRejected' = poolRejected + 1
  /\ UNCHANGED <<dtVars, gcVars, workerCount, poolWorker, poolPending,
                 poolSubmitted, poolFinished, poolShutdown, poolHighWater>>

\* shutdown(): no new task is accepted; the tasks in flight run on.
Shutdown ==
  /\ ~poolShutdown
  /\ poolShutdown' = TRUE
  /\ UNCHANGED <<dtVars, gcVars, workerCount, poolWorker, poolPending,
                 poolSubmitted, poolRejected, poolFinished, poolHighWater>>

\* An idle worker takes a pending task, in no particular order, and calls
\* its Execute.
WorkerTake ==
  \E w \in DOMAIN poolWorker : \E t \in poolPending :
    /\ poolWorker[w] = 0
    /\ poolWorker' = [poolWorker EXCEPT ![w] = t]
    /\ poolPending' = poolPending \ {t}
    /\ poolHighWater' = Max(poolHighWater, Cardinality(Running) + 1)
    /\ UNCHANGED <<dtVars, gcVars, workerCount, poolSubmitted, poolRejected,
                   poolFinished, poolShutdown>>

\* Execute returns, or fails, on a worker: the worker is idle again.
WorkerFinish ==
  \E w \in DOMAIN poolWorker : \E outcome \in {"returned", "failed"} :
    /\ poolWorker[w] # 0
    /\ poolFinished' =
         poolFinished \cup {[task |-> poolWorker[w], outcome |-> outcome]}
    /\ poolWorker' = [poolWorker EXCEPT ![w] = 0]
    /\ UNCHANGED <<dtVars, gcVars, workerCount, poolPending, poolSubmitted,
                   poolRejected, poolShutdown, poolHighWater>>

NextPool ==
  \/ Submit
  \/ SubmitRejected
  \/ Shutdown
  \/ WorkerTake
  \/ WorkerFinish

(***************************************************************************)
(* Specifications.                                                         *)
(***************************************************************************)
ListStep ==
  \/ ListFetch
  \/ ListFetchFail
  \/ ListSend
  \/ ListCancelled
  \/ ListPageDone
  \/ ListExit

FilterStep ==
  \/ FilterRecv
  \/ FilterEnd
  \/ FilterSend
  \/ FilterCancelled
  \/ FilterExit

DeleteStep ==
  \/ DeleteRecv
  \/ DeleteEnd
  \/ DeleteOk
  \/ DeleteFail
  \/ DeleteExit

LoopStep ==
  \/ LoopReturn
  \/ LoopStartRun
  \/ RunReturn

NextReaper ==
  \/ Tick
  \/ CancelOwner
  \/ CreateObject
  \/ LoopStep
  \/ ListStep
  \/ FilterStep
  \/ DeleteStep

\* A download task is created; the reaper is not started.
InitDownload ==
  /\ TaskCreated
  /\ ReaperCreated
  /\ updated = [o \in Names |-> UpdatedTimes[((o + 1) % Len(UpdatedTimes)) + 1]]
  /\ PoolCreated
  /\ workerCount = 1

\* garbageCollect is started; no download task runs.
InitReaper ==
  /\ ReaperCreated
  /\ TaskCreated
  /\ objectSize = 0
  /\ blockCap = 1
  /\ startOff = 0
  /\ hasUpdater = FALSE
  /\ exposesHandle = FALSE
  /\ PoolCreated
  /\ workerCount = 1

\* A download task is created for a block at any offset, also beyond the
\* end of the object; the reaper is not started.
InitDownloadAny ==
  /\ TaskCreatedAnywhere
  /\ ReaperCreated
  /\ updated = [o \in Names |-> UpdatedTimes[((o + 1) % Len(UpdatedTimes)) + 1]]
  /\ PoolCreated
  /\ workerCount = 1

\* A pool is created; no download task runs and the reaper is not started.
InitPool ==
  /\ PoolCreated
  /\ ReaperCreated
  /\ updated = [o \in Names |-> UpdatedTimes[((o + 1) % Len(UpdatedTimes)) + 1]]
  /\ TaskCreated
  /\ objectSize = 0
  /\ blockCap = 1
  /\ startOff = 0
  /\ hasUpdater = FALSE
  /\ exposesHandle = FALSE

\* The download task alone; the reaper stays in its initial state.
SpecDownload == InitDownload /\ [][NextDownload]_vars

\* The download task of a block at any offset.
SpecDownloadAny == InitDownloadAny /\ [][NextDownload]_vars

\* The download task whose bucket and reader calls return.
FairSpecDownload == SpecDownload /\ WF_vars(TaskStep)

\* The worker pool alone.
SpecPool == InitPool /\ [][NextPool]_vars

\* The reaper alone; no download task runs.
SpecReaper == InitReaper /\ [][NextReaper]_vars

\* The reaper whose goroutines keep being scheduled and whose bucket calls
\* return.
FairSpecReaper ==
  /\ SpecReaper
  /\ WF_vars(ListStep)
  /\ WF_vars(FilterStep)
  /\ WF_vars(DeleteStep)
  /\ WF_vars(LoopStep)

(***************************************************************************)
(* Properties of DownloadTask.Execute.                                     *)
(***************************************************************************)
Notified == Len(notifications) >= 1

Downloaded == [State |-> "Downloaded", Err |-> NoErr]

\* C1: when the ranged open and the copy both succeed, exactly
\* min(start + capacity, objectSize) - start bytes are written to the block,
\* and the block is notified with state Downloaded and no error.
C1_SuccessWritesRange ==
  /\ (openResult = "ok" /\ dtErr = NoErr
        /\ dtPC \in {"update", "close", "notify", "metrics", "done"})
       => written = Min(startOff + blockCap, objectSize) - startOff
  /\ (openResult = "ok" /\ dtErr = NoErr /\ dtPC \in {"metrics", "done"})
       => notifications = <<Downloaded>>

\* A block that ends before start + capacity: the last block of an object.
C1_Witness ==
  /\ dtPC = "done"
  /\ openResult = "ok"
  /\ dtErr = NoErr
  /\ startOff + blockCap > objectSize
  /\ written = 2
  /\ notifications = <<Downloaded>>

\* C2: after Execute the block is in DownloadFailed carrying a clobbered-file
\* error if and only if the ranged open failed with a not-found error; every
\* other open failure gives DownloadFailed with the generic wrapped error.
C2_ClobberedIffNotFound ==
  dtPC \in {"metrics", "done"} =>
    /\ (\E i \in 1..Len(notifications) :
          /\ notifications[i].State = "DownloadFailed"
          /\ notifications[i].Err.wrap = "FileClobberedError")
         <=> openResult = "NotFound"
    /\ openResult \in {"Canceled", "Other"} =>
         /\ Len(notifications) = 1
         /\ notifications[1].State = "DownloadFailed"
         /\ notifications[1].Err.wrap = "while reader-creations"
         /\ notifications[1].Err.cause = openResult

C2_Witness ==
  /\ dtPC = "done"
  /\ openResult = "NotFound"
  /\ notifications =
       <<[State |-> "DownloadFailed",
          Err |-> [wrap |-> "FileClobberedError", cause |-> "NotFound"]]>>

\* The context was cancelled while the open or the copy was still to finish.
CancelledBeforeCompletion == cancelPhase \in {"start", "copy"}

\* C3, as claimed: a task whose context is cancelled before the download
\* completes, and whose open or copy then fails, ends in DownloadFailed with
\* the label cancelled in both metrics, whatever error was returned.
C3_CancelledWhateverError ==
  (dtPC = "done" /\ CancelledBeforeCompletion /\ dtErr # NoErr) =>
    /\ notifications[1].State = "DownloadFailed"
    /\ latencyObs = <<"cancelled">>
    /\ blockCounts = <<"cancelled">>

\* C3, amended: such a task ends in DownloadFailed; the label is cancelled
\* when the returned error is the cancellation error and failed when it is
\* any other error; a download that completes all the same is Downloaded
\* and labelled successful.
C3_CancelledByErrorKind ==
  (dtPC = "done" /\ CancelledBeforeCompletion) =>
    /\ Len(notifications) = 1
    /\ latencyObs = blockCounts
    /\ dtErr # NoErr =>
         /\ notifications[1].State = "DownloadFailed"
         /\ latencyObs =
              <<IF dtErr.cause = "Canceled" THEN "cancelled" ELSE "failed">>
    /\ dtErr = NoErr =>
         /\ notifications[1].State = "Downloaded"
         /\ latencyObs = <<"successful">>

\* A copy interrupted by the cancellation, after one byte.
C3_Witness ==
  /\ dtPC = "done"
  /\ cancelPhase = "copy"
  /\ written = 1
  /\ dtErr = CopyError("Canceled")
  /\ notifications[1].State = "DownloadFailed"
  /\ latencyObs = <<"cancelled">>
  /\ blockCounts = <<"cancelled">>

\* C4: every Execute issues exactly one NotifyReady on every path, never
\* two, never none once it has returned, with state Downloaded or
\* DownloadFailed.
C4_ExactlyOneNotification ==
  /\ Len(notifications) <= 1
  /\ dtPC \in {"metrics", "done"} => Len(notifications) = 1
  /\ dtPC \in {"start", "copy", "update", "close", "notify"} =>
       notifications = <<>>
  /\ \A i \in 1..Len(notifications) :
       notifications[i].State \in {"Downloaded", "DownloadFailed"}

\* The copy failure path of a cancelled task.
C4_Witness ==
  /\ dtPC = "done"
  /\ dtCtx
  /\ dtErr.wrap = "while data-copy"
  /\ Len(notifications) = 1
  /\ notifications[1].State = "DownloadFailed"

\* C5: every started Execute eventually notifies its block with a terminal
\* state, also when its context is cancelled.
C5_EventuallyNotified ==
  (dtPC = "start") ~>
    (Notified /\ notifications[1].State \in {"Downloaded", "DownloadFailed"})

\* A cancelled task that has notified its block.
C5_Witness ==
  /\ Notified
  /\ cancelPhase = "start"
  /\ status = "cancelled"
  /\ notifications[1].State = "DownloadFailed"

(***************************************************************************)
(* Properties of garbageCollectOnce.                                       *)
(***************************************************************************)
\* The names the DeleteObject calls of the run have deleted.
Deleted == {deleteCalls[k].name :
              k \in {j \in 1..Len(deleteCalls) : deleteCalls[j].ok}}

\* Age of an object at the time the run took as now, in minutes.
AgeAtRun(o) == runNow - updated[o]

\* C6, as claimed: a run that returns no error deleted exactly the listed
\* objects older than the 30 minutes of the staleness threshold, left every
\* other listed object in the bucket, and returns the number deleted.
C6_DeletesExactlyOlder ==
  (RunFinished /\ groupErr = Nil) =>
    /\ Deleted = {o \in emitted : AgeAtRun(o) > 30}
    /\ bucket = bucketAtStart \ Deleted
    /\ objectsDeleted = Cardinality(Deleted)

\* C6, amended: ... exactly the listed objects at least as old as the
\* 30 minutes of the staleness threshold ...
C6_DeletesExactlyNotYounger ==
  (RunFinished /\ groupErr = Nil) =>
    /\ Deleted = {o \in emitted : AgeAtRun(o) >= 30}
    /\ bucket = bucketAtStart \ Deleted
    /\ objectsDeleted = Cardinality(Deleted)

\* A successful run over objects aged 5, 30 and 31 minutes, and one more,
\* deletes those aged 30 and 31 minutes and leaves the one aged 5 minutes.
C6_Witness ==
  /\ RunFinished
  /\ groupErr = Nil
  /\ emitted = Names
  /\ {5, 30, 31} \subseteq {AgeAtRun(o) : o \in Names}
  /\ objectsDeleted >= 2
  /\ \E o \in Deleted : AgeAtRun(o) = 30
  /\ \E o \in bucket : AgeAtRun(o) = 5

\* C7: in every run, finished, failed or cancelled, DeleteObject is issued
\* only for a name the list stage emitted and the filter stage forwarded
\* after that; an object younger than the threshold is never deleted.
C7_DeleteOnlyForwarded ==
  /\ forwarded \subseteq emitted
  /\ \A k \in 1..Len(deleteCalls) : deleteCalls[k].name \in forwarded
  /\ deletePC = "delete" => deleteName \in forwarded
  /\ Range(staleNames) \subseteq forwarded
  /\ Range(minObjects) \subseteq emitted
  /\ \A k \in 1..Len(deleteCalls) : AgeAtRun(deleteCalls[k].name) >= 30
  /\ \A o \in bucketAtStart : AgeAtRun(o) < 30 => o \in bucket

\* A failed run that had deleted an object while a younger one was listed.
C7_Witness ==
  /\ RunFinished
  /\ groupErr # Nil
  /\ \E k \in 1..Len(deleteCalls) : deleteCalls[k].ok
  /\ \E o \in emitted : AgeAtRun(o) < 30

\* The run now finishing is the second of two in succession: the one before
\* it succeeded and no temporary object was created between them.
SecondRunInSuccession ==
  /\ RunFinished
  /\ lastRun.err = Nil
  /\ ~createdSince

\* C8, as claimed: the second of two runs in succession issues no delete
\* and returns a count of 0.
C8_SecondRunDeletesNothing ==
  SecondRunInSuccession =>
    /\ deleteCalls = <<>>
    /\ objectsDeleted = 0

\* C8, amended: ... provided no object left by the first run has reached
\* the staleness threshold by the time of the second run.
C8_SecondRunDeletesNothingUnlessAged ==
  (SecondRunInSuccession /\ \A o \in lastRun.left : AgeAtRun(o) < 30) =>
    /\ deleteCalls = <<>>
    /\ objectsDeleted = 0

\* The first run deleted an object and left a young one; the second run
\* listed the young one and deleted nothing.
C8_Witness ==
  /\ SecondRunInSuccession
  /\ lastRun.count >= 1
  /\ lastRun.left # {}
  /\ \A o \in lastRun.left : AgeAtRun(o) < 30
  /\ emitted = lastRun.left
  /\ groupErr = Nil
  /\ objectsDeleted = 0

\* C9, as claimed: a run during which the owning context was cancelled
\* returns a non-nil error.
C9_CancelledRunReturnsError ==
  (RunFinished /\ cancelledMidRun) => groupErr # Nil

\* C9, amended: a run during which the owning context is cancelled
\* terminates; it returns a non-nil error when a stage returned one, and
\* nil only when the three stages ran to their end, all stale objects
\* listed being deleted.
C9_CancelledRunTerminates ==
  /\ (loopPC = "run" /\ cancelledMidRun) ~> (loopPC # "run")
  /\ []((RunFinished /\ cancelledMidRun) =>
          \/ groupErr # Nil
          \/ /\ listErr = Nil /\ filterErr = Nil /\ deleteErr = Nil
             /\ Deleted = {o \in bucketAtStart : AgeAtRun(o) >= 30})

\* A run cancelled while the filter stage waited to send, which returns the
\* cancellation error with a listed stale object not forwarded.
C9_Witness ==
  /\ RunFinished
  /\ cancelledMidRun
  /\ groupErr = "context canceled"
  /\ \E o \in emitted \ forwarded : AgeAtRun(o) >= 30

StageFailed == listErr # Nil \/ filterErr # Nil \/ deleteErr # Nil

\* C10: when one of the three stages returns an error the shared context
\* is cancelled and the other two stages terminate, so the run returns.
C10_FailedRunReturns ==
  /\ (loopPC = "run" /\ StageFailed) ~> (loopPC # "run")
  /\ [](loopPC = "run" /\
          (\/ listPC = "done" /\ listErr # Nil
           \/ filterPC = "done" /\ filterErr # Nil
           \/ deletePC = "done" /\ deleteErr # Nil) => groupCtx)

\* The delete stage failed while the filter stage waits to send on the full
\* channel staleNames, the channel minObjects being full as well.
C10_Witness ==
  /\ loopPC = "run"
  /\ deletePC = "done"
  /\ deleteErr # Nil
  /\ filterPC = "select"
  /\ Len(staleNames) = ChanCap
  /\ Len(minObjects) = ChanCap

\* The number of DeleteObject calls of the run that succeeded.
OkDeletes == Cardinality({k \in 1..Len(deleteCalls) : deleteCalls[k].ok})

\* C11: a failing run returns the first error a stage returned, which no
\* later error replaces, together with a count equal to the number of
\* DeleteObject calls that succeeded; the objects deleted stay deleted, and
\* the count is at no time larger or smaller than that number.
C11_FirstErrorAndCount ==
  /\ [](loopPC = "run" =>
         /\ objectsDeleted = OkDeletes
         /\ objectsDeleted = Cardinality(Deleted)
         /\ bucket = bucketAtStart \ Deleted
         /\ groupErr # Nil => groupErr \in {listErr, filterErr, deleteErr}
         /\ (listPC = "done" /\ listErr # Nil) => groupErr # Nil
         /\ (filterPC = "done" /\ filterErr # Nil) => groupErr # Nil
         /\ (deletePC = "done" /\ deleteErr # Nil) => groupErr # Nil)
  /\ [][(loopPC = "run" /\ loopPC' = "run" /\ groupErr # Nil) =>
          groupErr' = groupErr]_vars

\* A run returns the error of the delete stage, which failed after one
\* delete had succeeded; the filter stage, cancelled by that failure,
\* returned its own error later.
C11_Witness ==
  /\ RunFinished
  /\ groupErr = "DeleteObject"
  /\ filterErr = "context canceled"
  /\ objectsDeleted >= 1
  /\ Len(deleteCalls) = objectsDeleted + 1
  /\ bucket # bucketAtStart

\* C12: after a run that returned an error the loop starts a run at the
\* next tick; the loop returns only when the owning context is cancelled,
\* and once it is cancelled the loop eventually returns.
C12_LoopSurvivesFailedRun ==
  /\ [](loopPC = "returned" => ownerCtx)
  /\ (loopPC = "select" /\ lastRun.err \notin {Nil, "none"} /\ tickPending
        /\ ~ownerCtx) ~> (loopPC = "run" \/ ownerCtx)
  /\ ownerCtx ~> (loopPC = "returned")

\* A run started at a tick after a run that returned an error, the owning
\* context not being cancelled.
C12_Witness ==
  /\ loopPC = "run"
  /\ lastRun.err \notin {Nil, "none"}
  /\ ~ownerCtx
  /\ emitted # {}

\* C16, as claimed: the filter stage forwards only names of objects older
\* than the 30 minutes of the threshold; an object aged exactly 30 minutes
\* is not forwarded and not deleted.
C16_ForwardsOnlyStrictlyOlder ==
  /\ \A o \in forwarded : AgeAtRun(o) > 30
  /\ \A o \in bucketAtStart : AgeAtRun(o) = 30 => o \in bucket

\* C16, amended: the filter stage forwards the names of the objects aged
\* 30 minutes or more, an object aged exactly 30 minutes included, and of
\* no other object.
C16_ForwardsNotYounger ==
  /\ \A o \in forwarded : AgeAtRun(o) >= 30
  /\ (loopPC = "run" /\ filterPC = "select") => AgeAtRun(filterObj) >= 30
  /\ (loopPC = "run" /\ filterPC \in {"exit", "done"} /\ filterErr = Nil) =>
       forwarded = {o \in emitted : AgeAtRun(o) >= 30}

\* The filter stage returned nil having forwarded an object aged exactly
\* 30 minutes and skipped a younger one.
C16_Witness ==
  /\ loopPC = "run"
  /\ filterPC = "exit"
  /\ filterErr = Nil
  /\ \E o \in forwarded : AgeAtRun(o) = 30
  /\ \E o \in emitted \ forwarded : AgeAtRun(o) < 30

\* C17, as claimed: once the shared context is cancelled the filter stage
\* forwards no further name.
C17_NoForwardAfterCancel ==
  [][(loopPC = "run" /\ groupCtx) => forwarded' \subseteq forwarded]_vars

\* C17, amended: the filter stage leaves its select either by forwarding
\* the name, which takes room in the channel, or, the shared context being
\* cancelled, by returning the cancellation error without forwarding; so a
\* stage waiting on a full channel when the context is cancelled forwards
\* nothing more and returns the cancellation error.
C17_CancelledWhileWaiting ==
  [][(loopPC = "run" /\ filterPC = "select" /\ filterPC' # "select") =>
       \/ /\ CanSend(staleNames)
          /\ forwarded' = forwarded \cup {filterObj}
          /\ filterErr' = Nil
       \/ /\ groupCtx
          /\ forwarded' = forwarded
          /\ filterErr' = "context canceled"
          /\ staleClosed']_vars

\* The filter stage, cancelled while it waited on the full channel, has
\* returned the cancellation error; the name it held was not forwarded.
C17_Witness ==
  /\ loopPC = "run"
  /\ filterPC = "exit"
  /\ filterErr = "context canceled"
  /\ Len(staleNames) = ChanCap
  /\ filterObj \notin forwarded
  /\ cancelledMidRun

(***************************************************************************)
(* Further properties of DownloadTask.Execute.                             *)
(***************************************************************************)
\* C14, as claimed: for every start offset, capacity and object size, a
\* start offset at or beyond the object size included, the range requested
\* from the bucket is [start, min(start + capacity, objectSize)) with
\* start <= limit, and the count of bytes to copy lies between 0 and the
\* capacity.
C14_RangeWellFormed ==
  /\ reqRange # <<>> =>
       /\ reqRange = <<startOff, Min(startOff + blockCap, objectSize)>>
       /\ reqRange[1] <= reqRange[2]
  /\ openResult = "ok" => copyN \in 0..blockCap

\* The labels of the two metrics.
Labels == {"successful", "cancelled", "failed"}

\* C15: every Execute records exactly one latency observation and exactly
\* one increment of the scheduled-block count, both with the same label,
\* one of successful, cancelled and failed; the label is successful exactly
\* when the block was notified Downloaded.
C15_OneMetricPairSameLabel ==
  /\ Len(latencyObs) <= 1
  /\ Len(blockCounts) <= 1
  /\ dtPC # "done" => (latencyObs = <<>> /\ blockCounts = <<>>)
  /\ dtPC = "done" =>
       /\ Len(latencyObs) = 1
       /\ blockCounts = latencyObs
       /\ latencyObs[1] \in Labels
       /\ latencyObs[1] = "successful" <=> notifications = <<Downloaded>>

\* A failed open of a task that was not cancelled: one observation and one
\* increment, both labelled failed, the block being DownloadFailed.
C15_Witness ==
  /\ dtPC = "done"
  /\ openResult = "Other"
  /\ ~dtCtx
  /\ latencyObs = <<"failed">>
  /\ blockCounts = <<"failed">>
  /\ notifications[1].State = "DownloadFailed"

\* dt.ctx was cancelled when the deferred function looked at it.
CtxAtLabel == cancelPhase \notin {"", "metrics"}

\* C18: the label is cancelled exactly when the attempt ended with an
\* error, the context of the task is cancelled and the error chain holds
\* the cancellation error; an error with a live context, or another error
\* with a cancelled context, is labelled failed; a completed copy is
\* labelled successful also when the context is cancelled afterwards.
C18_LabelByErrorAndContext ==
  dtPC \in {"metrics", "done"} =>
    /\ status = "cancelled" <=>
         (dtErr # NoErr /\ CtxAtLabel /\ dtErr.cause = "Canceled")
    /\ (dtErr # NoErr /\ ~CtxAtLabel) => status = "failed"
    /\ (dtErr # NoErr /\ dtErr.cause # "Canceled") => status = "failed"
    /\ dtErr = NoErr => status = "successful"

\* The copy returned the cancellation error while the context of the task
\* was live: the label is failed.
C18_Witness ==
  /\ dtPC = "done"
  /\ dtErr = CopyError("Canceled")
  /\ cancelPhase = ""
  /\ status = "failed"
  /\ latencyObs = <<"failed">>

\* C19, as claimed: the updater is called exactly once when the download
\* succeeded, an updater was supplied and the bucket exposes an updated
\* read handle, and never otherwise.
C19_UpdaterOnlyWithHandle ==
  dtPC = "done" =>
    updaterCalls =
      IF dtErr = NoErr /\ hasUpdater /\ exposesHandle THEN 1 ELSE 0

\* C19, amended: the updater is called exactly once when the download
\* succeeded and an updater was supplied, whether the bucket exposes a read
\* handle or not, with the handle the reader returns; it is never called
\* otherwise.
C19_UpdaterWheneverSupplied ==
  /\ updaterCalls = Len(updaterArgs)
  /\ updaterCalls <= 1
  /\ updaterCalls = 1 => (dtErr = NoErr /\ openResult = "ok" /\ hasUpdater)
  /\ updaterArgs \in {<<>>, <<ReadHandle(exposesHandle)>>}
  /\ dtPC \in {"close", "notify", "metrics", "done"} =>
       updaterCalls = IF dtErr = NoErr /\ hasUpdater THEN 1 ELSE 0

\* A successful download from a bucket that exposes no read handle: the
\* updater was called, with the nil handle.
C19_Witness ==
  /\ dtPC = "done"
  /\ dtErr = NoErr
  /\ hasUpdater
  /\ ~exposesHandle
  /\ written >= 1
  /\ updaterArgs = <<"nil">>

\* Positions of an event in the trace of Execute.
Pos(ev) == {i \in 1..Len(dtTrace) : dtTrace[i] = ev}

\* C20: the observable events of an Execute are ordered open, copy,
\* notify: no byte is written to the block before the open succeeded and
\* none after the terminal notification.
C20_OpenCopyNotifyOrder ==
  /\ \A w \in Pos("write") :
       /\ \E o \in Pos("open") : o < w
       /\ \A n \in Pos("notify") : w < n
  /\ \A o \in Pos("open") : \A n \in Pos("notify") : o < n
  /\ Cardinality(Pos("write")) = written
  /\ written > 0 => openResult = "ok"
  /\ Cardinality(Pos("notify")) = Len(notifications)

\* A copy that failed after two bytes, between the open and the
\* notification.
C20_Witness ==
  /\ dtPC = "done"
  /\ dtTrace = <<"open", "write", "write", "close", "notify">>
  /\ dtErr # NoErr
  /\ notifications[1].State = "DownloadFailed"

(***************************************************************************)
(* Properties of the worker pool.                                          *)
(***************************************************************************)
\* C13: whatever the number of tasks submitted, a pool of W workers has at
\* no time more than W tasks executing, and no task executing on two
\* workers.
C13_AtMostWConcurrent ==
  /\ Cardinality(Running) <= workerCount
  /\ poolHighWater <= workerCount
  /\ \A v, w \in DOMAIN poolWorker :
       (v # w /\ poolWorker[v] # 0) => poolWorker[v] # poolWorker[w]

\* More tasks than workers were submitted: every worker executes a task
\* and a task waits.
C13_Witness ==
  /\ workerCount = 2
  /\ poolSubmitted > workerCount
  /\ Cardinality(Running) = workerCount
  /\ poolHighWater = workerCount
  /\ poolPending # {}

(***************************************************************************)
(* Retries and the reader of DownloadTask.Execute.                         *)
(***************************************************************************)
\* C21: Execute never retries: the ranged open of the bucket is called
\* exactly once on every path, and after a failed open or a failed copy no
\* further open is made and no further byte is copied.
C21_NoRetry ==
  /\ [](/\ openCalls <= 1
        /\ dtPC # "start" => openCalls = 1
        /\ Cardinality(Pos("open") \cup Pos("openfail")) = openCalls)
  /\ [][dtErr # NoErr =>
          /\ openCalls' = openCalls
          /\ written' = written
          /\ dtErr' = dtErr]_vars

\* A copy that failed after one byte: one open, and nothing tried again.
C21_Witness ==
  /\ dtPC = "done"
  /\ dtErr = CopyError("Other")
  /\ openCalls = 1
  /\ written = 1
  /\ copyN = 2

\* C28: the reader a successful open returned is closed exactly once on
\* every path, copy success, copy failure and cancellation, and before the
\* terminal notification of the block; after a failed open no reader is
\* closed.
C28_ReaderClosedOnceBeforeNotify ==
  /\ closeCalls <= 1
  /\ closeCalls = Cardinality(Pos("close"))
  /\ \A c \in Pos("close") :
       /\ \E o \in Pos("open") : o < c
       /\ \A n \in Pos("notify") : c < n
  /\ Notified => closeCalls = (IF openResult = "ok" THEN 1 ELSE 0)
  /\ (Notified /\ openResult = "ok") => readerState = "closed"
  /\ openResult \notin {"ok", "pending"} =>
       (closeCalls = 0 /\ readerState = "none")

\* The task was cancelled during the copy, which ended short: the reader
\* was closed once, before the block was notified.
C28_Witness ==
  /\ dtPC = "done"
  /\ cancelPhase = "copy"
  /\ dtErr = CopyError("Canceled")
  /\ closeCalls = 1
  /\ dtTrace = <<"open", "close", "notify">>

(***************************************************************************)
(* Channels, runs and stages of the reaper.                                *)
(***************************************************************************)
\* C22: each of the two channels of a run holds at most its capacity (100
\* in the program, ChanCap here); a producing stage that finds its channel
\* full does nothing until the consuming stage receives or the shared
\* context is cancelled, so that the list and filter stages run ahead of
\* the delete stage by no more than the channels hold.
C22_BoundedChannelsBackpressure ==
  /\ [](/\ Len(minObjects) <= ChanCap
        /\ Len(staleNames) <= ChanCap
        /\ Cardinality(forwarded) <= Len(deleteCalls) + ChanCap + 1
        /\ Cardinality({o \in emitted \ forwarded : AgeAtRun(o) >= 30})
             <= ChanCap + 1)
  /\ [][(loopPC = "run" /\ listPC = "emit" /\ listPage # <<>>
          /\ Len(minObjects) >= ChanCap /\ listVars' # listVars) =>
         (groupCtx /\ listErr' # Nil /\ emitted' = emitted)]_vars
  /\ [][(loopPC = "run" /\ filterPC = "select"
          /\ Len(staleNames) >= ChanCap /\ filterVars' # filterVars) =>
         (groupCtx /\ filterErr' # Nil /\ forwarded' = forwarded)]_vars

\* Both channels are full with the list and filter stages waiting to send
\* while the delete stage has not yet received a name; the context is
\* live.
C22_Witness ==
  /\ loopPC = "run"
  /\ ~groupCtx
  /\ Len(minObjects) = ChanCap
  /\ Len(staleNames) = ChanCap
  /\ listPC = "emit"
  /\ listPage # <<>>
  /\ filterPC = "select"
  /\ deletePC = "recv"
  /\ deleteCalls = <<>>

\* C23, as claimed: no run is started after the owning context has been
\* cancelled; with the context cancelled and a tick pending the loop
\* returns.
C23_NoRunAfterCancel ==
  [][ownerCtx => ~(loopPC = "select" /\ loopPC' = "run")]_vars

\* C23, amended: after the cancellation the loop starts a run only when a
\* tick is pending at its select, which then takes either case, and that
\* run starts with its context already cancelled; with no tick pending the
\* loop can only return.
C23_RunAfterCancelOnlyOnPendingTick ==
  /\ [][(ownerCtx /\ loopPC = "select" /\ loopPC' = "run") =>
          (tickPending /\ ~tickPending' /\ groupCtx')]_vars
  /\ [][(ownerCtx /\ loopPC = "select" /\ ~tickPending
          /\ loopPC' # "select") => loopPC' = "returned"]_vars
  /\ []((loopPC = "run" /\ ownerCtx) => groupCtx)

\* A run started after the owning context was cancelled: it has not yet
\* listed anything and its context is cancelled.
C23_Witness ==
  /\ loopPC = "run"
  /\ ownerCtx
  /\ ~cancelledMidRun
  /\ listPC = "fetch"
  /\ listToken = 0
  /\ groupCtx

\* C24: runs never overlap: while a run is in progress no other run is
\* started, and a tick that fires meanwhile leaves the run as it is.
C24_RunsNeverOverlap ==
  [][loopPC = "run" =>
       /\ loopPC' = "run" =>
            /\ runNow' = runNow
            /\ bucketAtStart' = bucketAtStart
            /\ emitted \subseteq emitted'
            /\ Len(deleteCalls) <= Len(deleteCalls')
            /\ objectsDeleted <= objectsDeleted'
       /\ (tickPending' /\ ~tickPending) =>
            UNCHANGED <<loopVars, groupVars, minChan, staleChan, listVars,
                        filterVars, deleteVars, histVars, bucket,
                        objectsDeleted>>]_vars

\* A tick fired while the run was in a DeleteObject call.
C24_Witness ==
  /\ loopPC = "run"
  /\ tickPending
  /\ now > runNow
  /\ emitted # {}
  /\ deletePC = "delete"

\* C25: garbageCollectOnce returns when the three stages have terminated:
\* the count it returns is the number of deletes of the run, and once it
\* has returned no DeleteObject is issued, no object disappears and the
\* count does not change.
C25_ReturnAfterAllStages ==
  /\ [](loopPC # "run" =>
         (listPC = "done" /\ filterPC = "done" /\ deletePC = "done"))
  /\ [][(loopPC = "run" /\ loopPC' # "run") =>
          /\ listPC = "done" /\ filterPC = "done" /\ deletePC = "done"
          /\ lastRun'.count = objectsDeleted
          /\ lastRun'.count = OkDeletes
          /\ lastRun'.left = bucket]_vars
  /\ [][(loopPC # "run" /\ loopPC' # "run") =>
          /\ bucket \subseteq bucket'
          /\ deleteCalls' = deleteCalls
          /\ objectsDeleted' = objectsDeleted
          /\ lastRun' = lastRun]_vars

\* A run has returned a count of two and a tick is pending again.
C25_Witness ==
  /\ loopPC = "select"
  /\ lastRun.count = 2
  /\ Cardinality(lastRun.left) = 2
  /\ bucket = lastRun.left
  /\ tickPending

\* C26: the delete stage stops at the first DeleteObject that fails: no
\* DeleteObject is issued after it in that run, and the names still queued
\* stay in the bucket.
C26_DeleteStopsAtFirstFailure ==
  /\ [](loopPC = "run" =>
         /\ \A k \in 1..(Len(deleteCalls) - 1) : deleteCalls[k].ok
         /\ deleteErr # Nil =>
              /\ deleteCalls # <<>>
              /\ ~deleteCalls[Len(deleteCalls)].ok
              /\ deletePC \in {"exit", "done"}
              /\ Range(staleNames) \subseteq bucket
              /\ deleteCalls[Len(deleteCalls)].name \in bucket)
  /\ [][(loopPC = "run" /\ loopPC' = "run" /\ deleteErr # Nil) =>
          /\ deleteCalls' = deleteCalls
          /\ bucket' = bucket
          /\ objectsDeleted' = objectsDeleted]_vars

\* The second DeleteObject of a run failed while a third name was queued:
\* the run ends with that name and the failed one in the bucket.
C26_Witness ==
  /\ loopPC = "run"
  /\ listPC = "done" /\ filterPC = "done" /\ deletePC = "done"
  /\ deleteErr = "DeleteObject"
  /\ Len(deleteCalls) = 2
  /\ staleNames # <<>>
  /\ Range(staleNames) \subseteq bucket

\* C27: each channel of a run is closed exactly once, by the stage that
\* sends on it, on every path by which that stage returns; nothing is sent
\* on a closed channel.
C27_ChannelsClosedOnce ==
  /\ [](loopPC = "run" =>
         /\ closes["minObjects"] =
              (IF listPC \in {"exit", "done"} THEN 1 ELSE 0)
         /\ closes["staleNames"] =
              (IF filterPC \in {"exit", "done"} THEN 1 ELSE 0)
         /\ minClosed <=> closes["minObjects"] = 1
         /\ staleClosed <=> closes["staleNames"] = 1)
  /\ [][(loopPC = "run" /\ loopPC' = "run") =>
          /\ closes'["minObjects"] # closes["minObjects"] =>
               (listPC # "exit" /\ listPC' = "exit")
          /\ closes'["staleNames"] # closes["staleNames"] =>
               (filterPC # "exit" /\ filterPC' = "exit")
          /\ minClosed => Len(minObjects') <= Len(minObjects)
          /\ staleClosed => Len(staleNames') <= Len(staleNames)]_vars

\* A run in which the delete stage failed, the list stage was cancelled
\* while sending and the filter stage reached the end of its input: each
\* channel was closed once.
C27_Witness ==
  /\ loopPC = "run"
  /\ listPC = "done" /\ filterPC = "done" /\ deletePC = "done"
  /\ deleteErr = "DeleteObject"
  /\ listErr = "ListPrefix: context canceled"
  /\ filterErr = Nil
  /\ closes["minObjects"] = 1
  /\ closes["staleNames"] = 1

====
